---- MODULE Spec2Model ----
(***************************************************************************)
(* Model of poetry's installation Executor                                 *)
(* (src/poetry/installation/executor.py) and of the configuration of the   *)
(* package sources in Factory.create_poetry (src/poetry/factory.py).       *)
(*                                                                         *)
(* The state is the Executor's policy flags, the io object's capabilities, *)
(* the files of the artifact cache and of the preparer's output directory, *)
(* the project directories (a local one and the clones under <env>/src),   *)
(* and the set of distributions installed in the environment.  Every       *)
(* handler is one action; what a handler does step by step is recorded in  *)
(* the event trace of the call, kept in the history variable last.         *)
(* _download is also modelled statement by statement, run by two threads.  *)
(***************************************************************************)
EXTENDS Integers, Sequences, FiniteSets, TLC

VARIABLES
    enabled,        \* Executor._enabled
    dry_run,        \* Executor._dry_run
    verbose,        \* Executor._verbose
    supports_ansi,  \* io.output.supports_ansi()
    is_debug,       \* io.is_debug()
    files,          \* path -> content of the file, or NoFile
    proj,           \* path -> project directory, or NoDir
    installed,      \* names of the distributions installed in the environment
    nops,           \* number of operations execute() has started
    status,         \* "ready" | "raised": whether execute() has propagated an exception
    last,           \* the last operation executed: its inputs, trace and outcome
    todo,           \* execute(operations): the operations the loop has not reached
    dl,             \* thread -> the call of _download it is in, and where
    poetry          \* Factory.create_poetry: its last call, from the sources on

vars == <<enabled, dry_run, verbose, supports_ansi, is_debug,
          files, proj, installed, nops, status, last, todo, dl, poetry>>

\* What the specifications of single operations leave alone.
elsewhere == <<todo, dl, poetry>>

-----------------------------------------------------------------------------
(* Bounds *)

MaxChunks == 2      \* longest response body, in chunks
MaxOps == 2         \* most operations execute() is given, over all its calls
MaxList == 3        \* longest list execute() is given
MaxSources == 2     \* most [[tool.poetry.source]] tables of a project

-----------------------------------------------------------------------------
(* Values *)

None == "<None>"
NoFile == <<None>>                    \* the path names no file
EmptyChunk == ""                      \* a chunk for which `not chunk` is true
Payloads == {"x"}                     \* the chunks that carry bytes
WheelMark == "whl"                    \* what a built wheel starts with
Alphabet == <<"x", "whl">>            \* what a file is made of

RECURSIVE SeqsUpTo(_, _)
SeqsUpTo(S, n) ==
    IF n = 0 THEN {<<>>}
    ELSE LET shorter == SeqsUpTo(S, n - 1)
         IN shorter \cup {Append(s, x) : s \in shorter, x \in S}

\* The bodies a server sends: chunks with bytes, then perhaps an empty one.
Bodies ==
    LET full == SeqsUpTo(Payloads, MaxChunks)
    IN full \cup {Append(b, EmptyChunk) : b \in {c \in full : Len(c) < MaxChunks}}

\* hashlib.sha256 of a file's bytes: injective on the contents of the model
\* (the positional value of the chunks in base Len(Alphabet) + 1).
RECURSIVE sha256(_)
sha256(content) ==
    IF content = <<>> THEN 0
    ELSE sha256(SubSeq(content, 1, Len(content) - 1)) * (Len(Alphabet) + 1)
         + (CHOOSE i \in DOMAIN Alphabet : Alphabet[i] = content[Len(content)])

\* "sha256:" + FileDependency(package.name, archive).hash()
ArchiveHash(content) == "sha256:" \o ToString(sha256(content))

CacheDir(name) == "artifacts/" \o name
\* A cache keyed by the filename alone.
CachePathByFilename(name, filename) == "artifacts/" \o filename
CachePath(name, filename) == CacheDir(name) \o "/" \o filename
BuiltPath(name, filename) == "built/" \o name \o "/" \o filename \o ".whl"
SrcDir(name) == "/env/src/" \o name

ArchiveNames == {"a", "b"}
GitNames == {"g"}
LocalDir == "/cwd/proj"

Links ==
    { [url |-> "https://host/pkg.whl", filename |-> "pkg.whl", is_wheel |-> TRUE],
      [url |-> "https://host/pkg.tgz", filename |-> "pkg.tgz", is_wheel |-> FALSE] }

FilePaths ==
    {CachePath(n, l.filename) : n \in ArchiveNames, l \in Links}
    \cup {BuiltPath(n, l.filename) : n \in ArchiveNames, l \in Links}

ProjPaths == {LocalDir} \cup {SrcDir(n) : n \in GitNames}
AbsolutePaths == {"/cwd"} \cup ProjPaths

\* A project directory: whether it exists, what its pyproject.toml is
\* ("none": no such file, "poetry": has a tool.poetry table, "poetry-pep517":
\* has a tool.poetry table and a build-system table, "plain": has no
\* tool.poetry table), what its setup.py is ("absent", "user": there before the install,
\* "empty": opened for writing and not written, "shim": the generated one),
\* and the git reference checked out in it.
Dir(pyproject, setup, ref) ==
    [exists |-> TRUE, pyproject |-> pyproject, setup |-> setup, ref |-> ref]
NoDir == [exists |-> FALSE, pyproject |-> "none", setup |-> "absent", ref |-> None]

\* os.path.join and os.path.realpath on the paths of the model.
join(a, b) == IF b \in AbsolutePaths THEN b ELSE a \o "/" \o b
realpath(p) == IF p \in AbsolutePaths THEN p ELSE join("/cwd", p)

-----------------------------------------------------------------------------
(* Packages and operations *)

\* Package(name, version): the fields a newly constructed Package has.
Package(name, version) ==
    [name |-> name, version |-> version, source_type |-> None,
     source_url |-> None, source_reference |-> None, develop |-> FALSE,
     root_dir |-> None, files |-> <<>>]

\* The lock-recorded integrity records a package of the model may carry.
FilesChoices ==
    { <<>>,
      <<[file |-> "pkg.whl", hash |-> ArchiveHash(<<"x">>)]>>,
      <<[file |-> "pkg.whl", hash |-> ArchiveHash(<<"x">>)],
        [file |-> "pkg.tgz", hash |-> ArchiveHash(<<"x", "x">>)]>> }

ArchivePackages ==
    {[Package("a", "1.0") EXCEPT !.source_type = "legacy", !.files = f] :
        f \in FilesChoices}
    \cup {[Package("b", "2.0") EXCEPT !.source_type = "file",
               !.source_url = "dist/pkg.tgz", !.files = f] :
        f \in {<<>>}}

DirectoryPackages ==
    {[Package("p", "0.1") EXCEPT !.source_type = "directory",
          !.source_url = "proj", !.develop = d, !.root_dir = r] :
        d \in BOOLEAN, r \in {None, "/cwd"}}

GitPackages ==
    {[Package(n, "3.0") EXCEPT !.source_type = "git",
          !.source_url = "https://git.host/" \o n,
          !.source_reference = "ref1"] : n \in GitNames}

NoPackage == Package(None, None)

Packages == ArchivePackages \cup DirectoryPackages \cup GitPackages

-----------------------------------------------------------------------------
(* The world a handler acts on, and the inputs the environment gives it *)

\* w.package is the caller's Package object, w.pkg the Package _clone
\* returned, w.dirpkg the Package _install_directory was called with, w.ev
\* the trace of the call, w.exc the exception that is propagating (None if
\* none), w.ret the value of the local `archive` of _download.
World(package) ==
    [files |-> files, proj |-> proj, installed |-> installed,
     package |-> package, pkg |-> NoPackage, dirpkg |-> NoPackage,
     handler |-> <<>>,
     ev |-> <<>>, exc |-> None, ret |-> None]

Ev(kind, args) == [k |-> kind, a |-> args]
Emit(w, kind, args) == [w EXCEPT !.ev = Append(@, Ev(kind, args))]
Raise(w, exception) == [w EXCEPT !.exc = exception]
\* A handler of Executor is entered.
Enter(w, method) == [w EXCEPT !.handler = Append(@, method)]

\* What the collaborators answer during one call.
\*   link            Chooser.choose_for(package)
\*   body            the chunks response.iter_content yields
\*   failAt          0: session.get raises; i >= 1: fetching chunk i raises;
\*                   NoFailure: the transfer does not fail
\*   content_length  whether the response has a content-length header
\*   chef            what Chef.prepare does
\*   pip             how `python -m pip ...` ends
\*   cloneOk, checkoutOk, repo   Git.clone, Git.checkout, the cloned tree
\*   factoryOk, buildOk          Factory().create_poetry, builder.build_setup
NoFailure == MaxChunks + 2
DefaultIn ==
    [link |-> CHOOSE l \in Links : l.is_wheel, body |-> <<>>, failAt |-> NoFailure,
     content_length |-> FALSE, chef |-> "same", pip |-> "ok",
     cloneOk |-> TRUE, checkoutOk |-> TRUE,
     repo |-> [pyproject |-> "none", setup |-> "absent"],
     factoryOk |-> TRUE, buildOk |-> TRUE]

\* io.write_line, io.write, io.overwrite
WriteLine(w, message) == Emit(w, "io.write_line", message)
Write(w, message) == Emit(w, "io.write", message)
Overwrite(w, message) == Emit(w, "io.overwrite", message)

\* Executor.run: `python -m pip <args>` in the environment.  Installing adds
\* the distribution, uninstalling removes it; a failing pip raises
\* CalledProcessError, whose text says "not installed" or something else.
\* The trace keeps the command and how it ended.
run(w, args, name, in) ==
    LET w1 == Emit(Emit(w, "pip", args), "pip.exit", <<in.pip>>)
    IN IF in.pip = "ok"
       THEN [w1 EXCEPT !.installed =
                IF args[1] = "install" THEN @ \cup {name} ELSE @ \ {name}]
       ELSE Raise(w1, IF in.pip = "not installed"
                      THEN "CalledProcessError: not installed"
                      ELSE "CalledProcessError")

-----------------------------------------------------------------------------
(* Executor._download *)

\* Chef.prepare(archive): an opaque transform archive -> archive that turns a
\* source archive into a wheel.  It either hands back the archive it was
\* given, or builds a wheel next to the cache and returns the wheel's path.
ChefPrepare(w, package, link, in) ==
    LET w1 == Emit(w, "chef", <<w.ret>>)
        built == BuiltPath(package.name, link.filename)
    IN IF in.chef = "same" THEN w1
       ELSE [w1 EXCEPT !.files[built] = <<WheelMark>> \o w.files[w.ret],
                       !.ret = built]

\* The progress object exists only if line 299's condition was false.
ProgressDefined == ~(~supports_ansi \/ is_debug)

\* Lines 314-326: the chunk loop, from chunk i on, writing to `archive`.
RECURSIVE ChunkLoop(_, _, _, _)
ChunkLoop(w, archive, in, i) ==
    IF in.failAt = i THEN Raise(w, "ConnectionError")
    ELSE IF i > Len(in.body) THEN w
    ELSE IF in.body[i] = EmptyChunk THEN w
    ELSE IF (supports_ansi \/ is_debug) /\ ~ProgressDefined
         THEN Raise(w, "UnboundLocalError")
    ELSE ChunkLoop(
            Emit([w EXCEPT !.files[archive] = Append(@, in.body[i])],
                 "write", <<archive>>),
            archive, in, i + 1)

\* Lines 293-329: the archive is not in the cache.
Fetch(w, package, link, in) ==
    LET archive == CachePath(package.name, link.filename)
        w1 == Emit(w, "get", <<link.url>>)
        message == <<"Downloading", package.name, package.version>>
        w2 == IF ~supports_ansi \/ is_debug
              THEN WriteLine(w1, message)
              ELSE Emit(w1, "progress",
                        IF in.content_length THEN <<"bar">> ELSE <<"indicator">>)
        w3 == Emit([w2 EXCEPT !.files[archive] = <<>>], "open", <<archive>>)
        w4 == ChunkLoop(w3, archive, in, 1)
    IN IF in.failAt = 0 THEN Raise(w1, "ConnectionError")
       ELSE IF w4.exc # None THEN w4
       ELSE IF ~link.is_wheel THEN ChefPrepare(w4, package, link, in)
       ELSE w4

\* The gate moved into the branch that fetches: a cached archive passes.
HashGateWhenFetched(w, package) ==
    IF package.files # <<>>
       /\ (\E i \in DOMAIN w.ev : w.ev[i].k = "get")
       /\ ArchiveHash(w.files[w.ret])
            \notin {package.files[j].hash : j \in DOMAIN package.files}
    THEN Raise(w, "RuntimeError: Invalid hash")
    ELSE w

\* Lines 331-336: the hash gate on the local `archive`.
HashGate(w, package) ==
    IF package.files # <<>>
       /\ ArchiveHash(w.files[w.ret])
            \notin {package.files[j].hash : j \in DOMAIN package.files}
    THEN Raise(w, "RuntimeError: Invalid hash")
    ELSE w

_download(w, package, in) ==
    LET link == in.link
        archive == CachePath(package.name, link.filename)
        w0 == [Emit(w, "mkdir", <<CacheDir(package.name)>>) EXCEPT !.ret = archive]
        w1 == IF w0.files[archive] = NoFile THEN Fetch(w0, package, link, in) ELSE w0
    IN IF w1.exc # None THEN w1 ELSE HashGate(w1, package)

-----------------------------------------------------------------------------
(* Executor._install_directory *)

\* Lines 224-229: build the shim and write it to setup.py.  open() creates
\* the file before builder.build_setup() is evaluated.
WriteShim(w, setup_dir, in) ==
    LET w1 == Emit([w EXCEPT !.proj[setup_dir].setup = "empty"],
                   "open", <<join(setup_dir, "setup.py")>>)
        w2 == Emit([w1 EXCEPT !.proj[setup_dir].setup = "shim"],
                   "write", <<join(setup_dir, "setup.py")>>)
    IN IF ~in.factoryOk THEN Raise(w, "RuntimeError: create_poetry")
       ELSE IF ~in.buildOk THEN Raise(w1, "RuntimeError: build_setup")
       ELSE w2

\* The finally clause without its `not has_setup` test.
RemoveShimAlways(w, setup_dir, has_setup) ==
    IF w.proj[setup_dir].setup # "absent"
    THEN Emit([w EXCEPT !.proj[setup_dir].setup = "absent"],
              "remove", <<join(setup_dir, "setup.py")>>)
    ELSE w

\* Lines 237-239: the finally clause around the pip run.
RemoveShim(w, setup_dir, has_setup) ==
    IF ~has_setup /\ w.proj[setup_dir].setup # "absent"
    THEN Emit([w EXCEPT !.proj[setup_dir].setup = "absent"],
              "remove", <<join(setup_dir, "setup.py")>>)
    ELSE w

\* "tool" in pyproject_content and "poetry" in pyproject_content["tool"]
PoetryProjects == {"poetry", "poetry-pep517"}

\* _install_directory with line 215 in force:
\* has_build_system = "build-system" in pyproject_content.
_install_directory_pep517(w, package, from_vcs, in) ==
    LET w0 == [w EXCEPT !.dirpkg = package]
        w1 == IF ~from_vcs
              THEN WriteLine(w0, <<"Installing", package.name, package.version>>)
              ELSE w0
        req == IF package.root_dir # None
               THEN join(package.root_dir, package.source_url)
               ELSE realpath(package.source_url)
        has_poetry == w1.proj[req].pyproject \in PoetryProjects
        has_build_system == w1.proj[req].pyproject = "poetry-pep517"
        has_setup == w1.proj[req].setup # "absent"
        w2 == IF ~has_setup /\ has_poetry /\ (package.develop \/ ~has_build_system)
              THEN WriteShim(w1, req, in)
              ELSE w1
        args == <<"install", "--no-deps", "-U">>
                \o (IF package.develop THEN <<"-e">> ELSE <<>>) \o <<req>>
    IN IF w2.exc # None THEN w2
       ELSE RemoveShim(run(w2, args, package.name, in), req, has_setup)

_install_directory(w, package, from_vcs, in) ==
    LET w0 == [w EXCEPT !.dirpkg = package]
        w1 == IF ~from_vcs
              THEN WriteLine(w0, <<"Installing", package.name, package.version>>)
              ELSE w0
        req == IF package.root_dir # None
               THEN join(package.root_dir, package.source_url)
               ELSE realpath(package.source_url)
        has_poetry == w1.proj[req].pyproject \in PoetryProjects
        has_build_system == FALSE
        has_setup == w1.proj[req].setup # "absent"
        w2 == IF ~has_setup /\ has_poetry /\ (package.develop \/ ~has_build_system)
              THEN WriteShim(w1, req, in)
              ELSE w1
        args == <<"install", "--no-deps", "-U">>
                \o (IF package.develop THEN <<"-e">> ELSE <<>>) \o <<req>>
    IN IF w2.exc # None THEN w2
       ELSE RemoveShim(run(w2, args, package.name, in), req, has_setup)

-----------------------------------------------------------------------------
(* Executor._install_git *)

\* The caller's Package turned into the directory package in place.
ClonedPackageInPlace(w, package, src_dir) ==
    LET pkg == [w.package EXCEPT !.source_type = "directory",
                                 !.source_url = src_dir, !.develop = TRUE]
    IN [w EXCEPT !.package = pkg, !.pkg = pkg]

\* Lines 257-262: the Package _clone returns.
ClonedPackage(w, package, src_dir) ==
    [w EXCEPT !.pkg = [Package(package.name, package.version) EXCEPT
                          !.source_type = "directory",
                          !.source_url = src_dir,
                          !.develop = TRUE]]

\* Lines 245-262.  A clone that fails leaves no directory; a checkout that
\* fails leaves the clone at its default branch.
_clone(w, package, in) ==
    LET src_dir == SrcDir(package.name)
        w1 == IF w.proj[src_dir].exists
              THEN Emit([w EXCEPT !.proj[src_dir] = NoDir], "rmtree", <<src_dir>>)
              ELSE w
        w2 == Emit(w1, "mkdir", <<"/env/src">>)
        w3 == Emit(w2, "clone", <<package.source_url, src_dir>>)
        w4 == [w3 EXCEPT !.proj[src_dir] =
                  Dir(in.repo.pyproject, in.repo.setup, "HEAD")]
        w5 == Emit(w4, "checkout", <<package.source_reference, src_dir>>)
        w6 == [w5 EXCEPT !.proj[src_dir].ref = package.source_reference]
    IN IF ~in.cloneOk THEN Raise(w3, "GitError: clone")
       ELSE IF ~in.checkoutOk THEN Raise(w5, "GitError: checkout")
       ELSE ClonedPackage(w6, package, src_dir)

\* _install_git with the clone held in a scope that deletes it on exit.
_install_git_scoped(w, package, in) ==
    LET cloning == <<"Cloning", package.name, package.version>>
        w1 == IF ~supports_ansi \/ is_debug
              THEN WriteLine(w, cloning)
              ELSE Write(w, cloning)
        w2 == _clone(w1, package, in)
        installing == <<"Installing", package.name, package.version>>
        w3 == IF ~supports_ansi \/ is_debug
              THEN WriteLine(w2, installing)
              ELSE WriteLine(Overwrite(w2, installing), <<"">>)
        w4 == IF w2.exc # None THEN w2
              ELSE _install_directory(w3, w3.pkg, TRUE, in)
    IN [w4 EXCEPT !.proj[SrcDir(package.name)] = NoDir]

_install_git(w, package, in) ==
    LET cloning == <<"Cloning", package.name, package.version>>
        w1 == IF ~supports_ansi \/ is_debug
              THEN WriteLine(w, cloning)
              ELSE Write(w, cloning)
        w2 == _clone(w1, package, in)
        installing == <<"Installing", package.name, package.version>>
        w3 == IF ~supports_ansi \/ is_debug
              THEN WriteLine(w2, installing)
              ELSE WriteLine(Overwrite(w2, installing), <<"">>)
    IN IF w2.exc # None THEN w2
       ELSE _install_directory(w3, w3.pkg, TRUE, in)

-----------------------------------------------------------------------------
(* Executor._install, _update, _remove *)

_install(w, package, update, in) ==
    IF package.source_type = "directory"
    THEN _install_directory(w, package, FALSE, in)
    ELSE IF package.source_type = "git"
    THEN _install_git(w, package, in)
    ELSE LET w1 == _download(w, package, in)
             message == <<"Installing", package.name, package.version>>
             w2 == IF ~supports_ansi \/ is_debug
                   THEN WriteLine(w1, message)
                   ELSE WriteLine(Overwrite(w1, message), <<"">>)
             args == IF update
                     THEN <<"install", "--no-deps", "-U", w1.ret>>
                     ELSE <<"install", "--no-deps", w1.ret>>
         IN IF w1.exc # None THEN w1
            ELSE run(w2, args, package.name, in)

_update(w, source, target, in) == _install(w, target, TRUE, in)

\* _remove that deletes the clone after the uninstall command has succeeded.
_remove_then_clean(w, package, in) ==
    LET src_dir == SrcDir(package.name)
        w1 == run(w, <<"uninstall", package.name, "-y">>, package.name, in)
        w2 == IF w1.exc = "CalledProcessError: not installed"
              THEN [w1 EXCEPT !.exc = None]
              ELSE w1
    IN IF w2.exc = None /\ package.source_type = "git" /\ w2.proj[src_dir].exists
       THEN Emit([w2 EXCEPT !.proj[src_dir] = NoDir], "rmtree", <<src_dir>>)
       ELSE w2

\* _remove without its except clause.
_remove_raising(w, package, in) ==
    LET src_dir == SrcDir(package.name)
        w1 == IF package.source_type = "git" /\ w.proj[src_dir].exists
              THEN Emit([w EXCEPT !.proj[src_dir] = NoDir], "rmtree", <<src_dir>>)
              ELSE w
    IN run(w1, <<"uninstall", package.name, "-y">>, package.name, in)

_remove(w, package, in) ==
    LET src_dir == SrcDir(package.name)
        w1 == IF package.source_type = "git" /\ w.proj[src_dir].exists
              THEN Emit([w EXCEPT !.proj[src_dir] = NoDir], "rmtree", <<src_dir>>)
              ELSE w
        w2 == run(w1, <<"uninstall", package.name, "-y">>, package.name, in)
    IN IF w2.exc = "CalledProcessError: not installed"
       THEN [w2 EXCEPT !.exc = None]
       ELSE w2

-----------------------------------------------------------------------------
(* Executor._execute_install, _execute_update, _execute_uninstall *)

\* Install(package), Update(initial, target), Uninstall(package), with the
\* fields of Operation the handlers read.  `package` is operation.package
\* (operation.target_package for an Update).
Operation(job_type, package, initial_package, skipped) ==
    [job_type |-> job_type, package |-> package,
     initial_package |-> initial_package, skipped |-> skipped,
     skip_reason |-> IF skipped THEN "Already installed" ELSE None]

\* The handler without the return that ends its skipped branch.
_execute_install_no_return(w0, operation, in) ==
    LET w == Enter(w0, "_execute_install")
        w1 == IF operation.skipped /\ verbose /\ (enabled \/ dry_run)
              THEN WriteLine(w, <<"Skipping", operation.package.name,
                                  operation.package.version, operation.skip_reason>>)
              ELSE w
    IN IF ~enabled \/ dry_run
       THEN WriteLine(w1, <<"Installing", operation.package.name,
                            operation.package.version>>)
       ELSE _install(w1, operation.package, FALSE, in)

_execute_install(w0, operation, in) ==
    LET w == Enter(w0, "_execute_install") IN
    IF operation.skipped
    THEN IF verbose /\ (enabled \/ dry_run)
         THEN WriteLine(w, <<"Skipping", operation.package.name,
                             operation.package.version, operation.skip_reason>>)
         ELSE w
    ELSE IF ~enabled \/ dry_run
    THEN WriteLine(w, <<"Installing", operation.package.name,
                        operation.package.version>>)
    ELSE _install(w, operation.package, FALSE, in)

_execute_update(w0, operation, in) ==
    LET w == Enter(w0, "_execute_update")
        source == operation.initial_package
        target == operation.package
        w1 == IF enabled \/ dry_run
              THEN WriteLine(w, <<"Updating", target.name, source.version,
                                  target.version>>)
              ELSE w
    IN IF operation.skipped
       THEN IF verbose /\ (enabled \/ dry_run)
            THEN WriteLine(w, <<"Skipping", target.name, target.version,
                                operation.skip_reason>>)
            ELSE w
       ELSE IF ~enabled THEN w1
       ELSE _update(w1, source, target, in)

_execute_uninstall(w0, operation, in) ==
    LET w == Enter(w0, "_execute_uninstall")
        w1 == IF enabled \/ dry_run
              THEN WriteLine(w, <<"Removing", operation.package.name,
                                  operation.package.version>>)
              ELSE w
    IN IF operation.skipped
       THEN IF verbose /\ (enabled \/ dry_run)
            THEN WriteLine(w, <<"Not removing", operation.package.name,
                                operation.package.version, operation.skip_reason>>)
            ELSE w
       ELSE IF ~enabled THEN w1
       ELSE _remove(w1, operation.package, in)

\* getattr(self, "_execute_{}".format(operation.job_type))(operation)
execute_operation(w, operation, in) ==
    IF operation.job_type = "install" THEN _execute_install(w, operation, in)
    ELSE IF operation.job_type = "update" THEN _execute_update(w, operation, in)
    ELSE _execute_uninstall(w, operation, in)

-----------------------------------------------------------------------------
(* Factory.create_poetry, lines 60-86, and Factory.create_legacy_repository *)

\* A [[tool.poetry.source]] table: the keys it has and their values.
SourceKeys == {"name", "url", "default", "secondary"}
Sources ==
    {s \in [keys : SUBSET SourceKeys, name : {None, "corp"},
            url : {None, "https://corp/simple"},
            default : BOOLEAN, secondary : BOOLEAN] :
        /\ s.name = None <=> "name" \notin s.keys
        /\ s.url = None <=> "url" \notin s.keys
        /\ s.default => "default" \in s.keys
        /\ s.secondary => "secondary" \in s.keys}

\* source.get(key, default)
Get(source, key, default) == IF key \in source.keys THEN source[key] ELSE default

\* The Poetry object with an empty pool; f.added is the pool's repositories in
\* the order they were added, f.repository the value create_legacy_repository
\* returned, f.ev the trace of the call.
NewPoetry(sources) ==
    [sources |-> sources, added |-> <<>>, default |-> FALSE,
     repository |-> None, ev |-> <<>>, exc |-> None, returned |-> FALSE]

\* Pool.has_default and Pool.add_repository(repository, default, secondary).
\* What the pool does with a second default repository is its own affair:
\* in.strict says whether it raises.
has_default(f) == f.default
add_repository(f, repository, default, secondary, in) ==
    IF default /\ f.default /\ in.strict
    THEN Raise(f, "ValueError")
    ELSE [f EXCEPT !.added = Append(@, [name |-> repository, default |-> default,
                                        secondary |-> secondary]),
                   !.default = @ \/ default]

\* create_legacy_repository that looks for the name first.
create_legacy_repository_name_first(f, source, in) ==
    IF "name" \notin source.keys THEN Raise(f, "RuntimeError: Missing [name] in source.")
    ELSE IF "url" \notin source.keys
    THEN Raise(f, "RuntimeError: Unsupported source specified")
    ELSE LET f1 == Emit(f, "PasswordManager", <<>>)
             f2 == Emit(f1, "get_http_auth", <<source.name>>)
             f3 == IF in.credentials THEN Emit(f2, "Auth", <<source.url>>) ELSE f2
             f4 == Emit(f3, "LegacyRepository", <<source.name, source.url>>)
         IN [f4 EXCEPT !.repository = source.name]

\* Lines 124-156.
create_legacy_repository(f, source, in) ==
    IF "url" \notin source.keys
    THEN Raise(f, "RuntimeError: Unsupported source specified")
    ELSE IF "name" \notin source.keys
    THEN Raise(f, "RuntimeError: Missing [name] in source.")
    ELSE LET f1 == Emit(f, "PasswordManager", <<>>)
             f2 == Emit(f1, "get_http_auth", <<source.name>>)
             f3 == IF in.credentials THEN Emit(f2, "Auth", <<source.url>>) ELSE f2
             f4 == Emit(f3, "LegacyRepository", <<source.name, source.url>>)
         IN [f4 EXCEPT !.repository = source.name]

\* Lines 60-76: the loop over the sources, from `sources` on.
RECURSIVE ConfigureSources(_, _, _)
ConfigureSources(f, sources, in) ==
    IF sources = <<>> THEN f
    ELSE LET source == Head(sources)
             f1 == create_legacy_repository(f, source, in)
             is_default == Get(source, "default", FALSE)
             is_secondary == Get(source, "secondary", FALSE)
             f2 == IF is_debug
                   THEN WriteLine(f1, <<"Adding repository", f1.repository,
                                        IF is_default THEN "default"
                                        ELSE IF is_secondary THEN "secondary"
                                        ELSE "">>)
                   ELSE f1
             f3 == add_repository(f2, f1.repository, is_default, is_secondary, in)
         IN IF f1.exc # None THEN f1
            ELSE IF f3.exc # None THEN f3
            ELSE ConfigureSources(f3, Tail(sources), in)

\* create_poetry that adds PyPI whatever the sources are, as the default
\* one if there is no other.
create_poetry_with_pypi(sources, in) ==
    LET f1 == ConfigureSources(NewPoetry(sources), sources, in)
        f2 == add_repository(f1, "PyPI", ~has_default(f1), FALSE, in)
    IN IF f1.exc # None THEN f1
       ELSE [f2 EXCEPT !.returned = TRUE]

\* Lines 60-86: the sources of the project, then PyPI.
create_poetry(sources, in) ==
    LET f1 == ConfigureSources(NewPoetry(sources), sources, in)
        f2 == IF ~has_default(f1)
              THEN add_repository(f1, "PyPI", TRUE, FALSE, in)
              ELSE IF is_debug
              THEN WriteLine(f1, <<"Deactivating the PyPI repository">>)
              ELSE f1
    IN IF f1.exc # None THEN f1
       ELSE [f2 EXCEPT !.returned = TRUE]

-----------------------------------------------------------------------------
(* The operations and inputs of the model *)

OperationsOn(packages) ==
    {Operation("install", p, NoPackage, s) : p \in packages, s \in BOOLEAN}
    \cup {Operation("update", p, [p EXCEPT !.version = "0.0"], s) :
            p \in packages, s \in BOOLEAN}
    \cup {Operation("uninstall", p, NoPackage, s) : p \in packages, s \in BOOLEAN}

Operations == OperationsOn(Packages)

\* What a server does: <<body, failAt>>.  The request fails, or the chunks
\* of body arrive and then the connection breaks, or the body arrives whole.
Transfers ==
    {<<<<>>, 0>>}
    \cup {<<b, Len(b) + 1>> : b \in SeqsUpTo(Payloads, MaxChunks)}
    \cup {<<b, NoFailure>> : b \in Bodies}

\* The answers that can matter to _download and the pip run after it: no
\* server is asked when the archive is in the cache, the header is read
\* for the progress bar alone, the preparer gets the archives that are not
\* wheels.
ArchiveInputs(package, l) ==
    LET hit == files[CachePath(package.name, l.filename)] # NoFile
    IN {[DefaultIn EXCEPT !.pip = o, !.link = l, !.body = d[1], !.failAt = d[2],
             !.content_length = h, !.chef = c] :
          o \in {"ok", "error"},
          d \in IF hit THEN {<<<<>>, NoFailure>>}
                ELSE Transfers,
          h \in IF hit \/ ~ProgressDefined THEN {FALSE} ELSE BOOLEAN,
          c \in IF hit \/ l.is_wheel THEN {"same"} ELSE {"same", "built"}}

\* The answers that can matter to _install_directory: the first of
\* create_poetry, build_setup and pip that fails, if one does.
DirectoryInputs ==
    {[DefaultIn EXCEPT !.factoryOk = FALSE], [DefaultIn EXCEPT !.buildOk = FALSE],
     [DefaultIn EXCEPT !.pip = "error"], DefaultIn}

\* The trees a repository can hold.
Repos ==
    {[pyproject |-> y, setup |-> t] :
        y \in {"none", "poetry", "plain"}, t \in {"absent", "user"}}

\* The answers of the collaborators that can matter to an operation.
Inputs(operation) ==
    IF operation.job_type = "uninstall"
    THEN {[DefaultIn EXCEPT !.pip = o] : o \in {"ok", "not installed", "error"}}
    ELSE IF operation.package.source_type = "directory"
    THEN DirectoryInputs
    ELSE IF operation.package.source_type = "git"
    THEN {[DefaultIn EXCEPT !.cloneOk = FALSE]}
         \cup {[d EXCEPT !.checkoutOk = k, !.repo = r] :
                 d \in DirectoryInputs, k \in BOOLEAN, r \in Repos}
    ELSE UNION {ArchiveInputs(operation.package, l) : l \in Links}

-----------------------------------------------------------------------------
(* _download run by several threads, statement by statement *)

Threads == {"t1", "t2"}

\* The locals of a call of _download and the statement it is at:
\*   "exists" line 292, "get" 294-310, "open" 313, "chunk" 314-326 (the
\*   cache file is open for writing), "prepare" 328-329, "gate" 331-338,
\*   "returned", "raised"; "none": the thread is in no call.
NoDownload ==
    [pc |-> "none", package |-> NoPackage, link |-> DefaultIn.link,
     archive |-> None, exc |-> None]

InCall(t) == dl[t].pc \notin {"none", "returned", "raised"}

-----------------------------------------------------------------------------
(* State machine *)

NoOperation == Operation(None, NoPackage, NoPackage, FALSE)

\* What is remembered of an operation: the operation, the link the chooser
\* gave and what the server sent, and the final World of the call without
\* the state it left behind.
Outcome(operation, in, w) ==
    [op |-> operation, link |-> in.link, body |-> in.body, failAt |-> in.failAt,
     package |-> w.package, pkg |-> w.pkg, dirpkg |-> w.dirpkg,
     handler |-> w.handler, ev |-> w.ev, exc |-> w.exc, ret |-> w.ret]

InitialLocalDirs ==
    {Dir(y, t, None) :
        y \in {"none", "poetry", "poetry-pep517", "plain"}, t \in {"absent", "user"}}

AnyIO == BOOLEAN \X BOOLEAN           \* <<supports_ansi, is_debug>>
PlainTerminal == {<<TRUE, FALSE>>}

\* Executor.__init__, an empty cache, no clone, an io among ios and a local
\* project directory among localDirs.
InitWith(localDirs, ios) ==
    /\ enabled = TRUE
    /\ dry_run = FALSE
    /\ verbose = FALSE
    /\ \E io \in ios : supports_ansi = io[1] /\ is_debug = io[2]
    /\ files = [f \in FilePaths |-> NoFile]
    /\ \E d \in localDirs :
          proj = [q \in ProjPaths |-> IF q = LocalDir THEN d ELSE NoDir]
    /\ installed = {}
    /\ nops = 0
    /\ status = "ready"
    /\ last = Outcome(NoOperation, DefaultIn, World(NoPackage))
    /\ todo = <<>>
    /\ dl = [t \in Threads |-> NoDownload]
    /\ poetry = NewPoetry(<<>>)

Init == InitWith(InitialLocalDirs, AnyIO)

disable ==
    /\ nops = 0
    /\ enabled' = FALSE
    /\ UNCHANGED <<dry_run, verbose, supports_ansi, is_debug, files, proj,
                   installed, nops, status, last>>
    /\ UNCHANGED elsewhere

DryRun ==
    /\ nops = 0
    /\ \E b \in BOOLEAN : dry_run' = b
    /\ UNCHANGED <<enabled, verbose, supports_ansi, is_debug, files, proj,
                   installed, nops, status, last>>
    /\ UNCHANGED elsewhere

Verbose ==
    /\ nops = 0
    /\ \E b \in BOOLEAN : verbose' = b
    /\ UNCHANGED <<enabled, dry_run, supports_ansi, is_debug, files, proj,
                   installed, nops, status, last>>
    /\ UNCHANGED elsewhere

\* The collaborators raise nothing.
NothingFails(in) ==
    /\ in.failAt = NoFailure /\ in.pip = "ok"
    /\ in.cloneOk /\ in.checkoutOk /\ in.factoryOk /\ in.buildOk

\* The body of the loop of execute() inside a try that catches everything.
HandleCatching(operation, failures) ==
    \E in \in {i \in Inputs(operation) : failures \/ NothingFails(i)} :
       \E w \in {execute_operation(World(operation.package), operation, in)} :
          /\ files' = w.files
          /\ proj' = w.proj
          /\ installed' = w.installed
          /\ last' = Outcome(operation, in, w)
          /\ status' = "ready"

\* The body of the loop of execute(): self.execute_operation(operation).
\* An exception leaves the loop.  With failures = FALSE the collaborators
\* are the ones that raise nothing.
Handle(operation, failures) ==
    \E in \in {i \in Inputs(operation) : failures \/ NothingFails(i)} :
       \E w \in {execute_operation(World(operation.package), operation, in)} :
          /\ files' = w.files
          /\ proj' = w.proj
          /\ installed' = w.installed
          /\ last' = Outcome(operation, in, w)
          /\ status' = IF w.exc # None THEN "raised" ELSE "ready"

\* One iteration of the loop of execute(): the next operation of the list,
\* whatever it is.
ExecuteOperation(operations, failures) ==
    /\ status = "ready"
    /\ nops < MaxOps
    /\ \E operation \in operations : Handle(operation, failures)
    /\ nops' = nops + 1
    /\ UNCHANGED <<enabled, dry_run, verbose, supports_ansi, is_debug>>
    /\ UNCHANGED elsewhere

\* execute() is called again after a call of it raised.
execute ==
    /\ status = "raised"
    /\ status' = "ready"
    /\ UNCHANGED <<enabled, dry_run, verbose, supports_ansi, is_debug, files,
                   proj, installed, nops, last>>
    /\ UNCHANGED elsewhere

\* execute(operations) is called with one of lists, when no call of it is
\* running: the call before returned or raised.
ExecuteCall(lists) ==
    /\ todo = <<>> \/ status = "raised"
    /\ nops < MaxList
    /\ \E operations \in lists : todo' = operations
    /\ status' = "ready"
    /\ UNCHANGED <<enabled, dry_run, verbose, supports_ansi, is_debug, files,
                   proj, installed, nops, last, dl, poetry>>

\* One iteration of the loop of execute(operations): the operation the
\* iterator yields.
ExecuteNext(failures) ==
    /\ status = "ready"
    /\ todo # <<>>
    /\ nops < MaxList
    /\ Handle(Head(todo), failures)
    /\ todo' = Tail(todo)
    /\ nops' = nops + 1
    /\ UNCHANGED <<enabled, dry_run, verbose, supports_ansi, is_debug, dl, poetry>>

\* What a step of a thread in _download leaves alone.
UnchangedByDownload ==
    UNCHANGED <<enabled, dry_run, verbose, supports_ansi, is_debug, proj,
                installed, status, last, todo, poetry>>

Goto(t, pc) == dl' = [dl EXCEPT ![t].pc = pc]
\* The call ends and its locals are gone.
RaiseIn(t, exception) ==
    dl' = [dl EXCEPT ![t] = [NoDownload EXCEPT !.pc = "raised", !.exc = exception]]
ReturnIn(t) == dl' = [dl EXCEPT ![t] = [NoDownload EXCEPT !.pc = "returned"]]

\* Lines 286-291: thread t enters _download(package) for a package whose
\* name no other thread is downloading; the chooser gives a link.
DownloadBegin(t, packages) ==
    /\ ~InCall(t)
    /\ nops < MaxOps
    /\ \E package \in packages, l \in Links :
          /\ \A s \in Threads \ {t} : InCall(s) => dl[s].package.name # package.name
          /\ dl' = [dl EXCEPT ![t] =
                       [NoDownload EXCEPT !.pc = "exists", !.package = package,
                           !.link = l,
                           !.archive = CachePath(package.name, l.filename)]]
    /\ nops' = nops + 1
    /\ UNCHANGED files
    /\ UnchangedByDownload

\* Line 292: if not archive.exists()
DownloadExists(t) ==
    /\ dl[t].pc = "exists"
    /\ Goto(t, IF files[dl[t].archive] = NoFile THEN "get" ELSE "gate")
    /\ UNCHANGED <<files, nops>>
    /\ UnchangedByDownload

\* Lines 293-310: the request, and the start of the progress display.
DownloadGet(t) ==
    /\ dl[t].pc = "get"
    /\ \E answered \in BOOLEAN :
          IF ~answered THEN RaiseIn(t, "ConnectionError") ELSE Goto(t, "open")
    /\ UNCHANGED <<files, nops>>
    /\ UnchangedByDownload

\* Line 313: archive.open("wb")
DownloadOpen(t) ==
    /\ dl[t].pc = "open"
    /\ files' = [files EXCEPT ![dl[t].archive] = <<>>]
    /\ Goto(t, "chunk")
    /\ UNCHANGED nops
    /\ UnchangedByDownload

\* What response.iter_content does next: it yields a chunk, ends, or the
\* connection breaks.
Received(sofar) ==
    {EmptyChunk, "StopIteration", "ConnectionError"}
    \cup (IF Len(sofar) < MaxChunks THEN Payloads ELSE {})

\* Lines 314-326: one iteration of the chunk loop; leaving the loop closes
\* the file.
DownloadChunk(t) ==
    /\ dl[t].pc = "chunk"
    /\ \E chunk \in Received(files[dl[t].archive]) :
          IF chunk = "ConnectionError"
          THEN RaiseIn(t, "ConnectionError") /\ UNCHANGED files
          ELSE IF chunk = "StopIteration" \/ chunk = EmptyChunk
          THEN /\ Goto(t, IF ~dl[t].link.is_wheel THEN "prepare" ELSE "gate")
               /\ UNCHANGED files
          ELSE IF (supports_ansi \/ is_debug) /\ ~ProgressDefined
          THEN RaiseIn(t, "UnboundLocalError") /\ UNCHANGED files
          ELSE /\ files' = [files EXCEPT ![dl[t].archive] = Append(@, chunk)]
               /\ UNCHANGED dl
    /\ UNCHANGED nops
    /\ UnchangedByDownload

\* Lines 328-329: archive = self._chef.prepare(archive)
DownloadPrepare(t) ==
    /\ dl[t].pc = "prepare"
    /\ \E c \in {"same", "built"} :
          \E w \in {ChefPrepare([World(dl[t].package) EXCEPT !.ret = dl[t].archive],
                                 dl[t].package, dl[t].link,
                                 [DefaultIn EXCEPT !.chef = c])} :
             /\ files' = w.files
             /\ dl' = [dl EXCEPT ![t].pc = "gate", ![t].archive = w.ret]
    /\ UNCHANGED nops
    /\ UnchangedByDownload

\* Lines 331-338: the hash gate and the return.
DownloadGate(t) ==
    /\ dl[t].pc = "gate"
    /\ \E w \in {HashGate([World(dl[t].package) EXCEPT !.ret = dl[t].archive],
                            dl[t].package)} :
          IF w.exc # None THEN RaiseIn(t, w.exc) ELSE ReturnIn(t)
    /\ UNCHANGED <<files, nops>>
    /\ UnchangedByDownload

\* Factory().create_poetry is called, once, on a project whose sources are
\* one of lists; the password manager has credentials for a source or not.
CreatePoetry(lists) ==
    /\ poetry = NewPoetry(<<>>)
    /\ \E sources \in lists, c \in BOOLEAN, s \in BOOLEAN :
          poetry' = create_poetry(sources, [credentials |-> c, strict |-> s])
    /\ UNCHANGED <<enabled, dry_run, verbose, supports_ansi, is_debug, files,
                   proj, installed, nops, status, last, todo, dl>>

Next ==
    \/ disable
    \/ DryRun
    \/ Verbose
    \/ execute
    \/ ExecuteOperation(Operations, TRUE)

Spec == Init /\ [][Next]_vars

\* Installs and updates of registry and file packages: the download path.
DownloadOperations ==
    {o \in OperationsOn({p \in ArchivePackages : p.name = "a"}) :
        o.job_type # "uninstall" /\ ~o.skipped}

NextDownload ==
    \/ execute
    \/ ExecuteOperation(DownloadOperations, TRUE)

InitDownload == InitWith({Dir("none", "absent", None)}, AnyIO)

SpecDownload == InitDownload /\ [][NextDownload]_vars

\* Every kind of operation, skipped or not, under every policy, with
\* collaborators that raise nothing.
PolicyPackages ==
    {p \in Packages :
        /\ p.files = <<>>
        /\ p.name # "b"
        /\ p.source_type = "directory" => (p.develop /\ p.root_dir = None)}

NextPolicy ==
    \/ disable
    \/ DryRun
    \/ Verbose
    \/ ExecuteOperation(OperationsOn(PolicyPackages), FALSE)

InitPolicy == InitWith({Dir("poetry", "absent", None)}, PlainTerminal)

SpecPolicy == InitPolicy /\ [][NextPolicy]_vars

\* Installs and updates of directory packages.
DirectoryOperations ==
    {o \in OperationsOn(DirectoryPackages) : o.job_type # "uninstall" /\ ~o.skipped}

NextDirectory ==
    \/ execute
    \/ ExecuteOperation(DirectoryOperations, TRUE)

SpecDirectory == Init /\ [][NextDirectory]_vars

\* Installs, updates and removals of git packages.
GitOperations == {o \in OperationsOn(GitPackages) : ~o.skipped}

NextGit ==
    \/ execute
    \/ ExecuteOperation(GitOperations, TRUE)

SpecGit == InitDownload /\ [][NextGit]_vars

\* Removals, of git packages and of others, among the installs of git
\* packages.  FormerGit is a registry package that has the name of a clone.
FormerGit ==
    {[Package(n, "2.0") EXCEPT !.source_type = "legacy"] : n \in GitNames}

RemoveOperations ==
    GitOperations
    \cup {o \in OperationsOn(FormerGit \cup {p \in PolicyPackages : p.name # "g"}) :
            o.job_type = "uninstall" /\ ~o.skipped}

NextRemove ==
    \/ execute
    \/ ExecuteOperation(RemoveOperations, TRUE)

SpecRemove == InitDownload /\ [][NextRemove]_vars

\* Lists of installs, updates and removals of a directory package.
ListedOperations ==
    {o \in OperationsOn({p \in PolicyPackages : p.source_type = "directory"}) :
        ~o.skipped}

Lists == SeqsUpTo(ListedOperations, MaxList) \ {<<>>}

NextExecute ==
    \/ ExecuteCall(Lists)
    \/ ExecuteNext(TRUE)

SpecExecute == InitPolicy /\ [][NextExecute]_vars

\* Two threads that download packages of different names.
ConcurrentPackages == {p \in ArchivePackages : Len(p.files) <= 1}

NextConcurrent ==
    \E t \in Threads :
        \/ DownloadBegin(t, ConcurrentPackages)
        \/ DownloadExists(t)
        \/ DownloadGet(t)
        \/ DownloadOpen(t)
        \/ DownloadChunk(t)
        \/ DownloadPrepare(t)
        \/ DownloadGate(t)

SpecConcurrent == InitDownload /\ [][NextConcurrent]_vars

\* Projects with up to MaxSources sources, with and without debug output.
SourceLists == SeqsUpTo(Sources, MaxSources)

AnsiTerminal == {<<TRUE, FALSE>>, <<TRUE, TRUE>>}

NextFactory == CreatePoetry(SourceLists)

InitFactory == InitWith({Dir("none", "absent", None)}, AnsiTerminal)

SpecFactory == InitFactory /\ [][NextFactory]_vars

-----------------------------------------------------------------------------
(* Reading the outcome of an operation *)

Happened(o, kind) == \E i \in DOMAIN o.ev : o.ev[i].k = kind

\* The operation reached _install and took its download branch.
IsDownload(o) ==
    /\ o.op.job_type \in {"install", "update"}
    /\ o.op.package.source_type \notin {"directory", "git"}
    /\ Happened(o, "mkdir")

Fetched(o) == Happened(o, "get")          \* an HTTP request was made
PipInvoked(o) == Happened(o, "pip")       \* the pip subprocess was started
Returned(o) == PipInvoked(o)              \* _download returned o.ret to _install

Hashes(package) == {package.files[j].hash : j \in DOMAIN package.files}
CachePathOf(o) == CachePath(o.op.package.name, o.link.filename)

\* The bytes of a body: its chunks up to the first empty one.
RECURSIVE Content(_)
Content(body) ==
    IF body = <<>> \/ body[1] = EmptyChunk THEN <<>>
    ELSE <<body[1]>> \o Content(Tail(body))

\* The steps that run an operation after another one.
NextOperation == nops' = nops + 1 /\ nops > 0

-----------------------------------------------------------------------------
(* C1..C5: the download path, under SpecDownload *)

\* C1. Hash gate: for a package with a non-empty files list, _download
\* returns its archive (and _install starts pip) only if "sha256:" + digest
\* of that archive is the hash of an entry of package.files; when it is not,
\* the call ends with the invalid-hash error and pip is not started, for an
\* archive just fetched and for one found in the cache alike.
C1_HashGate ==
    (IsDownload(last) /\ last.op.package.files # <<>>) =>
        /\ Returned(last) =>
              ArchiveHash(files[last.ret]) \in Hashes(last.op.package)
        /\ (/\ last.exc \notin {"ConnectionError", "UnboundLocalError"}
            /\ ArchiveHash(files[last.ret]) \notin Hashes(last.op.package))
           => (last.exc = "RuntimeError: Invalid hash" /\ ~PipInvoked(last))

\* An archive found in the cache is rejected by the gate.
C1_Witness ==
    /\ IsDownload(last) /\ last.op.package.files # <<>>
    /\ ~Fetched(last)
    /\ last.exc = "RuntimeError: Invalid hash"

\* C2. With files = [{hash: "sha256:<H>"}], downloading content whose digest
\* is H succeeds and returns the cache path, for wheel links and for links
\* whose archive goes through the preparer.
C2_MatchingDownloadReturnsCachePath ==
    (/\ IsDownload(last) /\ Fetched(last)
     /\ Len(last.op.package.files) = 1
     /\ last.failAt = NoFailure
     /\ ArchiveHash(Content(last.body)) \in Hashes(last.op.package))
    => (Returned(last) /\ last.ret = CachePathOf(last))

\* C3. After _download raised the invalid-hash error there is no file at the
\* cache path of (package.name, link.filename).
C3_RejectedArchiveNotCached ==
    (IsDownload(last) /\ last.exc = "RuntimeError: Invalid hash")
    => files[CachePathOf(last)] = NoFile

\* C4. Cache idempotence: a _download of the package and link of the
\* _download before it, which returned, makes no HTTP request and returns
\* the path that one returned.
C4_SecondDownloadSamePath ==
    [][(/\ NextOperation
        /\ IsDownload(last) /\ Returned(last)
        /\ IsDownload(last')
        /\ last'.op.package = last.op.package /\ last'.link = last.link)
       => (~Fetched(last') /\ Returned(last') /\ last'.ret = last.ret)]_vars

\* C5. A download that failed after the cache file was opened and before the
\* body was written is not reused: the next _download of the same package
\* name and filename fetches the archive again.
C5_PartialDownloadNotReused ==
    [][(/\ NextOperation
        /\ IsDownload(last) /\ Happened(last, "open")
        /\ last.exc \in {"ConnectionError", "UnboundLocalError"}
        /\ IsDownload(last')
        /\ last'.op.package.name = last.op.package.name
        /\ last'.link.filename = last.link.filename)
       => Fetched(last')]_vars

-----------------------------------------------------------------------------
(* C6..C8: the execution policy, under SpecPolicy *)

Ran(o) == o.op.job_type # None
OutputKinds == {"io.write_line", "io.write", "io.overwrite"}
OnlyOutput(o) == \A i \in DOMAIN o.ev : o.ev[i].k \in OutputKinds
NothingMutated ==
    files' = files /\ proj' = proj /\ installed' = installed

\* C6. An operation with skipped = true, of any kind and under any policy,
\* writes nothing to the cache, makes no network call, starts no subprocess
\* and changes no file; it writes a line if and only if
\* verbose and (enabled or dry_run).
C6_SkippedDoesNothing ==
    [][(nops' = nops + 1 /\ last'.op.skipped) =>
          /\ NothingMutated
          /\ OnlyOutput(last')
          /\ (last'.ev # <<>>) <=> (verbose /\ (enabled \/ dry_run))]_vars

\* A skipped operation logged by a disabled executor in a dry run.
C6_Witness ==
    /\ Ran(last) /\ last.op.skipped
    /\ verbose /\ dry_run /\ ~enabled
    /\ Len(last.ev) = 1

\* C7. An operation that is not skipped, of any kind, mutates nothing when
\* dry_run = true or enabled = false: no network call, no cache write, no
\* pip subprocess, no clone directory deleted.
C7_DryRunMutatesNothing ==
    [][(nops' = nops + 1 /\ ~last'.op.skipped /\ (dry_run \/ ~enabled)) =>
          (NothingMutated /\ OnlyOutput(last'))]_vars

\* The word a handler's notice starts with.
ActionWord(job_type) ==
    IF job_type = "install" THEN "Installing"
    ELSE IF job_type = "update" THEN "Updating" ELSE "Removing"

\* C8. An operation that is not skipped, of any kind, emits a line naming
\* the action when dry_run = true or enabled = false, also when enabled is
\* false and dry_run is false.
C8_DryRunEmitsLine ==
    (Ran(last) /\ ~last.op.skipped /\ (dry_run \/ ~enabled)) =>
        \E i \in DOMAIN last.ev :
            /\ last.ev[i].k = "io.write_line"
            /\ last.ev[i].a[1] = ActionWord(last.op.job_type)
            /\ last.ev[i].a[2] = last.op.package.name

-----------------------------------------------------------------------------
(* C9: the build shim, under SpecDirectory *)

Req(package) ==
    IF package.root_dir # None
    THEN join(package.root_dir, package.source_url)
    ELSE realpath(package.source_url)

\* C9. Whenever _install_directory has created setup.py, the file is absent
\* when the call exits, however it exits.
C9_ShimRemovedOnEveryExit ==
    (/\ Ran(last) /\ last.op.package.source_type = "directory"
     /\ Happened(last, "open"))
    => proj[Req(last.op.package)].setup = "absent"

-----------------------------------------------------------------------------
(* C10: the git install, under SpecGit *)

Before(o, first, second) ==
    \A i, j \in DOMAIN o.ev :
        (o.ev[i].k = first /\ o.ev[j].k = second) => i < j

\* The operation reached _install_git.
IsGitInstall(o) ==
    /\ o.op.job_type \in {"install", "update"}
    /\ o.op.package.source_type = "git"
    /\ Happened(o, "mkdir")

\* C10. _install_git removes an existing <env>/src/<name> before cloning,
\* clones source_url, then checks out source_reference, and only then calls
\* the directory installer, with a new Package of the input's name and
\* version whose source_type is directory, develop is true and source_url
\* is the clone path; the input Package is unchanged, and no pip runs when
\* the clone or the checkout fails.
C10_GitInstallOrder ==
    [][(nops' = nops + 1 /\ IsGitInstall(last')) =>
          LET o == last'
              input == o.op.package
              src_dir == SrcDir(input.name)
          IN /\ proj[src_dir].exists => Happened(o, "rmtree")
             /\ Before(o, "rmtree", "clone")
             /\ Before(o, "clone", "checkout")
             /\ Before(o, "checkout", "pip")
             /\ \A i \in DOMAIN o.ev :
                   /\ o.ev[i].k = "clone" => o.ev[i].a = <<input.source_url, src_dir>>
                   /\ o.ev[i].k = "checkout" =>
                         o.ev[i].a = <<input.source_reference, src_dir>>
             /\ PipInvoked(o) =>
                   /\ Happened(o, "clone") /\ Happened(o, "checkout")
                   /\ proj'[src_dir].ref = input.source_reference
                   /\ o.dirpkg = [Package(input.name, input.version) EXCEPT
                                     !.source_type = "directory",
                                     !.develop = TRUE,
                                     !.source_url = src_dir]
             /\ o.package = input
             /\ o.exc \in {"GitError: clone", "GitError: checkout"}
                   => ~PipInvoked(o)]_vars

\* A stale clone was removed and the new clone installed.
C10_Witness ==
    /\ IsGitInstall(last)
    /\ Happened(last, "rmtree")
    /\ PipInvoked(last) /\ last.exc = None

-----------------------------------------------------------------------------
(* C11: removal, under SpecRemove *)

\* The operation reached _remove.
IsRemove(o) == o.op.job_type = "uninstall" /\ PipInvoked(o)

\* How the pip run of the operation ended.
PipExit(o) == o.ev[CHOOSE i \in DOMAIN o.ev : o.ev[i].k = "pip.exit"].a[1]

\* C11. _remove completes without error when the uninstall command fails
\* with a text that contains "not installed", and propagates any other
\* failure of the command unchanged; so the second of two removals of the
\* same package in a row does not fail when pip finds the package absent.
C11_IdempotentRemoval ==
    [][(nops' = nops + 1 /\ IsRemove(last')) =>
          /\ PipExit(last') = "not installed" => last'.exc = None
          /\ PipExit(last') = "error" => last'.exc = "CalledProcessError"
          /\ PipExit(last') = "ok" => last'.exc = None
          /\ (/\ IsRemove(last) /\ last.exc = None
              /\ last.op.package = last'.op.package
              /\ PipExit(last') # "error") => last'.exc = None]_vars

\* The second removal in a row of a package: pip said "not installed" and
\* the removal completed.
C11_Witness ==
    /\ nops = 2
    /\ IsRemove(last) /\ PipExit(last) = "not installed"
    /\ last.op.package.name \notin installed
    /\ last.exc = None /\ status = "ready"

-----------------------------------------------------------------------------
(* C12: progress reporting, under SpecDownload *)

\* C12. Progress reporting never affects control flow: whatever
\* supports_ansi(), is_debug() and the presence of a content-length header
\* are, a _download that opened the cache file wrote the bytes the server
\* sent to it and raised nothing of its own.
C12_ProgressNeverAffectsControlFlow ==
    (IsDownload(last) /\ Happened(last, "open")) =>
        /\ files[CachePathOf(last)] = Content(last.body)
        /\ last.exc # "UnboundLocalError"

-----------------------------------------------------------------------------
(* C13: the loop of execute(), under SpecExecute *)

\* C13. execute() takes the operations strictly in list order, hands each
\* to exactly one handler, the one of its kind, and starts none before the
\* one before it has completed.  If an operation raises, the failure is
\* raised to the caller of execute(), no later operation of the list is
\* started, and what earlier operations did is not rolled back.
C13_SequentialFailFast ==
    [][(nops' = nops + 1) =>
          /\ status = "ready" /\ todo # <<>>
          /\ last'.op = Head(todo) /\ todo' = Tail(todo)
          /\ last'.handler = <<"_execute_" \o Head(todo).job_type>>
          /\ status' = "raised" <=> last'.exc # None
          /\ last'.exc # None =>
                /\ installed \subseteq installed'
                /\ \A q \in ProjPaths :
                      (proj[q].exists /\ q # SrcDir(last'.op.package.name))
                      => proj'[q].exists]_vars

\* The second operation of a list raised after the first one installed the
\* package: the package is still installed and the third was not started.
C13_Witness ==
    /\ nops = 2 /\ Len(todo) = 1
    /\ status = "raised" /\ last.exc # None
    /\ installed # {}

-----------------------------------------------------------------------------
(* C14: the clone directory after a git install, under SpecGit *)

\* C14 as stated. The clone directory <env>/src/<name> is deleted on every
\* exit path of the git install, failures included: none is left behind
\* after the operation ends.
C14_CloneDirDeletedOnExit ==
    IsGitInstall(last) => ~proj[SrcDir(last.op.package.name)].exists

\* C14 amended. The clone directory <env>/src/<name> is kept on every exit
\* path of the git install that follows a successful clone, failures of the
\* checkout and of pip included; a clone directory is deleted only at the
\* start of the next _install_git of that name and by _remove.
C14_CloneDirKept ==
    [][(nops' = nops + 1) =>
          LET src_dir == SrcDir(last'.op.package.name)
          IN /\ IsGitInstall(last') =>
                   (proj'[src_dir].exists <=> last'.exc # "GitError: clone")
             /\ \A q \in ProjPaths :
                   (proj[q].exists /\ ~proj'[q].exists) =>
                      /\ q = src_dir /\ last'.op.package.source_type = "git"
                      /\ \E i \in DOMAIN last'.ev :
                            /\ last'.ev[i].k = "rmtree" /\ last'.ev[i].a = <<q>>
                            /\ \A j \in DOMAIN last'.ev :
                                  last'.ev[j].k \in {"clone", "pip"} => i < j]_vars

\* pip failed on the clone and the clone is still there.
C14_Witness ==
    /\ IsGitInstall(last)
    /\ last.exc = "CalledProcessError"
    /\ proj[SrcDir(last.op.package.name)].exists

-----------------------------------------------------------------------------
(* C15, C16: the decision to write setup.py, under SpecDirectory *)

\* The operation reached _install_directory for a directory package.
IsDirectoryInstall(o) ==
    Ran(o) /\ o.op.package.source_type = "directory" /\ o.dirpkg # NoPackage

\* C15. _install_directory writes a temporary setup.py exactly when no
\* setup.py exists and pyproject.toml has a tool.poetry table, whether the
\* package is in develop mode or not and whether pyproject.toml has a
\* build-system table or not; the file is created unless building the
\* project for the shim (create_poetry) raises first.
C15_ShimDecision ==
    [][(nops' = nops + 1 /\ IsDirectoryInstall(last')) =>
          LET dir == proj[Req(last'.op.package)]
          IN (Happened(last', "open") \/ last'.exc = "RuntimeError: create_poetry")
             <=> (dir.setup = "absent" /\ dir.pyproject \in PoetryProjects)]_vars

\* A shim was written for a package that is not in develop mode and whose
\* pyproject.toml has a build-system table.
C15_Witness ==
    /\ IsDirectoryInstall(last)
    /\ ~last.op.package.develop
    /\ proj[Req(last.op.package)].pyproject = "poetry-pep517"
    /\ Happened(last, "write") /\ PipInvoked(last)

\* C16. A setup.py that existed before _install_directory was called is
\* neither overwritten nor deleted by it, whether the pip run succeeds or
\* fails.
C16_ExistingSetupUntouched ==
    [][(/\ nops' = nops + 1 /\ IsDirectoryInstall(last')
        /\ proj[Req(last'.op.package)].setup # "absent") =>
          /\ proj'[Req(last'.op.package)].setup = proj[Req(last'.op.package)].setup
          /\ ~Happened(last', "open") /\ ~Happened(last', "write")
          /\ ~Happened(last', "remove")
          /\ PipInvoked(last')]_vars

\* pip failed on a project that has its own setup.py, which is still there.
C16_Witness ==
    /\ IsDirectoryInstall(last)
    /\ PipInvoked(last) /\ PipExit(last) = "error"
    /\ last.exc = "CalledProcessError"
    /\ proj[Req(last.op.package)].setup = "user"
    /\ proj[Req(last.op.package)].pyproject \in PoetryProjects

-----------------------------------------------------------------------------
(* C17: the clone directory on removal, under SpecRemove *)

\* C17. _remove of a git package deletes its clone directory before it
\* invokes the uninstall command: whenever it exits, by returning or by
\* propagating the failure of the command, <env>/src/<name> does not exist.
\* _remove of a package of any other source type deletes nothing under
\* <env>/src.
C17_CloneDirGoneOnRemove ==
    [][(nops' = nops + 1 /\ IsRemove(last')) =>
          LET package == last'.op.package
          IN IF package.source_type = "git"
             THEN /\ ~proj'[SrcDir(package.name)].exists
                  /\ proj[SrcDir(package.name)].exists => Happened(last', "rmtree")
                  /\ Before(last', "rmtree", "pip")
             ELSE /\ proj' = proj
                  /\ ~Happened(last', "rmtree")]_vars

\* The uninstall command failed for a git package whose clone existed: the
\* failure is propagated and the clone is gone.
C17_Witness ==
    /\ IsRemove(last) /\ last.op.package.source_type = "git"
    /\ Happened(last, "rmtree")
    /\ last.exc = "CalledProcessError" /\ status = "raised"
    /\ ~proj[SrcDir(last.op.package.name)].exists

-----------------------------------------------------------------------------
(* C18: downloads of different packages in parallel, under SpecConcurrent *)

\* The thread has the cache file open for writing.
Writing(t) == dl[t].pc = "chunk"

\* C18. Downloads of packages of different names that run concurrently do
\* not contend on the cache: while a thread has a cache file open for
\* writing, no other thread in _download has that path, to open it for
\* writing, to find it in the cache or to reuse it.
C18_NoCacheContention ==
    \A s, t \in Threads :
        (s # t /\ Writing(s) /\ InCall(t)) => dl[t].archive # dl[s].archive

\* Both threads are writing, each the file of the same name of its package.
C18_Witness ==
    /\ \A t \in Threads : Writing(t) /\ files[dl[t].archive] # <<>>
    /\ dl["t1"].link = dl["t2"].link
    /\ dl["t1"].package.name # dl["t2"].package.name

-----------------------------------------------------------------------------
(* C19, C20: the sources of a project, under SpecFactory *)

Invalid(source) == "url" \notin source.keys \/ "name" \notin source.keys
Count(f, kind) == Cardinality({i \in DOMAIN f.ev : f.ev[i].k = kind})

\* C19. create_legacy_repository raises "Unsupported source specified" for
\* every source without a url, and "Missing [name] in source." for a source
\* with a url and no name, before any credentials lookup and before any
\* repository is created for it; create_poetry then adds neither that
\* source nor a later one to the pool.
C19_InvalidSourceRejected ==
    LET bad == {k \in DOMAIN poetry.sources : Invalid(poetry.sources[k])}
    IN (bad # {} /\ poetry.exc # "ValueError") =>
          LET k == CHOOSE i \in bad : \A j \in bad : i <= j
          IN /\ poetry.exc =
                   IF "url" \notin poetry.sources[k].keys
                   THEN "RuntimeError: Unsupported source specified"
                   ELSE "RuntimeError: Missing [name] in source."
             /\ ~poetry.returned
             /\ Len(poetry.added) = k - 1
             /\ Count(poetry, "PasswordManager") = k - 1
             /\ Count(poetry, "get_http_auth") = k - 1
             /\ Count(poetry, "LegacyRepository") = k - 1

\* A source with a url and no name before a valid one: nothing was looked
\* up, created or added.
C19_Witness ==
    /\ Len(poetry.sources) = 2
    /\ poetry.sources[1].keys = {"url"}
    /\ ~Invalid(poetry.sources[2])
    /\ poetry.exc = "RuntimeError: Missing [name] in source."
    /\ poetry.added = <<>> /\ poetry.ev = <<>>

\* C20. After create_poetry returns the pool has a default repository:
\* PyPI is added, as the default one, exactly when no source of the project
\* made the pool have a default, and then it is added after all of them.
C20_PoolHasDefault ==
    poetry.returned =>
        LET added == poetry.added
            pypi == {i \in DOMAIN added : added[i].name = "PyPI"}
            configured == \E k \in DOMAIN poetry.sources :
                             Get(poetry.sources[k], "default", FALSE)
        IN /\ has_default(poetry)
           /\ \E i \in DOMAIN added : added[i].default
           /\ pypi # {} <=> ~configured
           /\ pypi # {} =>
                 /\ pypi = {Len(added)} /\ added[Len(added)].default
                 /\ Len(added) = Len(poetry.sources) + 1
           /\ pypi = {} => Len(added) = Len(poetry.sources)

\* Two sources, none of them the default: PyPI was added after them.
C20_Witness ==
    /\ poetry.returned
    /\ Len(poetry.sources) = 2 /\ Len(poetry.added) = 3
    /\ poetry.added[3] = [name |-> "PyPI", default |-> TRUE, secondary |-> FALSE]
    /\ ~poetry.added[1].default /\ ~poetry.added[2].default

====
